---- MODULE Spec2Model ----
(***************************************************************************)
(* Document ingestion and retrieval engine of the Enterprise Knowledge DMS *)
(* backend (backend/server.py).                                            *)
(*                                                                         *)
(* Texts, filenames and content types are sequences of one-character      *)
(* strings.  The handlers are coroutines on one event loop: a handler is  *)
(* split at its awaits on the store, and every action is one such section *)
(* (the store call together with the synchronous code around it).         *)
(*                                                                         *)
(* A store call may raise.  The first store call of a handler (the insert  *)
(* of the document record, the find_one of delete_document, the insert     *)
(* into search_queries) is taken to succeed: when it raises the request    *)
(* ends with nothing stored and nothing read.  Document ids are uuid4      *)
(* values, modelled as numbers that are never issued twice.                *)
(***************************************************************************)
EXTENDS Integers, Sequences, FiniteSets, TLC

\* ------------------------------------------------------------------------
\* Bounds of the model
\* ------------------------------------------------------------------------
MaxRequests == 3
MaxUploads == 2
MaxFaults == 2

\* ------------------------------------------------------------------------
\* Characters
\* ------------------------------------------------------------------------
LowerLetters ==
    <<"a","b","c","d","e","f","g","h","i","j","k","l","m",
      "n","o","p","q","r","s","t","u","v","w","x","y","z">>

UpperLetters ==
    <<"A","B","C","D","E","F","G","H","I","J","K","L","M",
      "N","O","P","Q","R","S","T","U","V","W","X","Y","Z">>

Digits == {"0","1","2","3","4","5","6","7","8","9"}

Whitespace == {" ", "\n", "\t", "\r"}

Range(s) == {s[i] : i \in 1..Len(s)}

UpperSet == Range(UpperLetters)

LetterSet == Range(LowerLetters) \cup UpperSet

WordCharSet == LetterSet \cup Digits \cup {"_"}

IsLetter(c) == c \in LetterSet

IsWordChar(c) == c \in WordCharSet

LowerChar(c) ==
    IF c \in UpperSet
    THEN LowerLetters[CHOOSE i \in 1..26 : UpperLetters[i] = c]
    ELSE c

\* str.lower()
Lower(s) == [i \in 1..Len(s) |-> LowerChar(s[i])]

\* str.strip()
Strip(s) ==
    LET keep == {i \in 1..Len(s) : s[i] \notin Whitespace}
    IN  IF keep = {} THEN <<>>
        ELSE SubSeq(s, CHOOSE i \in keep : \A j \in keep : i <= j,
                       CHOOSE i \in keep : \A j \in keep : j <= i)

\* str.endswith(suffix)
EndsWith(s, suffix) ==
    /\ Len(suffix) <= Len(s)
    /\ SubSeq(s, Len(s) - Len(suffix) + 1, Len(s)) = suffix

\* n copies of the character c
Rep(c, n) == [i \in 1..n |-> c]

\* ------------------------------------------------------------------------
\* Content types and filename extensions
\* ------------------------------------------------------------------------
CtPdf == "application/pdf"
CtDocx == "application/vnd.openxmlformats-officedocument.wordprocessingml.document"
CtXlsx == "application/vnd.openxmlformats-officedocument.spreadsheetml.sheet"
CtPptx == "application/vnd.openxmlformats-officedocument.presentationml.presentation"
CtText == "text/plain"
CtBinary == "application/octet-stream"

allowed_types == {CtPdf, CtDocx, CtXlsx, CtPptx, CtText}

ExtPdf == <<".","p","d","f">>
ExtDocx == <<".","d","o","c","x">>
ExtXlsx == <<".","x","l","s","x">>
ExtPptx == <<".","p","p","t","x">>
ExtTxt == <<".","t","x","t">>

allowed_extensions == {ExtPdf, ExtDocx, ExtXlsx, ExtPptx, ExtTxt}

\* filename.split('.')[-1]
LastSegment(filename) ==
    LET dots == {i \in 1..Len(filename) : filename[i] = "."}
    IN  IF dots = {} THEN filename
        ELSE SubSeq(filename, (CHOOSE i \in dots : \A j \in dots : j <= i) + 1,
                    Len(filename))

\* '.' + file.filename.split('.')[-1].lower() if '.' in file.filename else ''
file_ext(filename) ==
    IF "." \in Range(filename)
    THEN <<".">> \o Lower(LastSegment(filename))
    ELSE <<>>

\* the negation of the test that raises 400 "File type not supported"
TypeSupported(content_type, filename) ==
    ~ (content_type \notin allowed_types /\ file_ext(filename) \notin allowed_extensions)

\* ------------------------------------------------------------------------
\* Extractor.  The bytes of an upload are represented by what the parsers
\* make of them: format is the format the bytes really have, text is what
\* the parser of that format extracts, raw is the bytes decoded as UTF-8.
\* A structured parser raises on bytes of any other format.
\* ------------------------------------------------------------------------
Variant(content_type, filename) ==
    IF content_type = CtPdf \/ EndsWith(filename, ExtPdf) THEN "pdf"
    ELSE IF content_type = CtDocx \/ EndsWith(filename, ExtDocx) THEN "docx"
    ELSE IF content_type = CtXlsx \/ EndsWith(filename, ExtXlsx) THEN "xlsx"
    ELSE IF content_type = CtPptx \/ EndsWith(filename, ExtPptx) THEN "pptx"
    ELSE IF content_type = CtText \/ EndsWith(filename, ExtTxt) THEN "plain"
    ELSE "other"

extract_text_from_file(file_content, content_type, filename) ==
    LET v == Variant(content_type, filename)
        text == IF v \in {"plain", "other"} THEN file_content.raw
                ELSE IF file_content.format = v THEN file_content.text
                ELSE <<>>
    IN  Strip(text)

\* ------------------------------------------------------------------------
\* Chunker
\* ------------------------------------------------------------------------
DefaultChunkSize == 1000
DefaultOverlap == 200

Min2(a, b) == IF a <= b THEN a ELSE b

\* the while loop of chunk_text; start is a 0-based offset
RECURSIVE ChunkLoop(_, _, _, _, _)
ChunkLoop(text, chunk_size, overlap, start, chunks) ==
    IF start < Len(text)
    THEN LET end == start + chunk_size
             chunk == SubSeq(text, start + 1, Min2(end, Len(text)))
         IN  ChunkLoop(text, chunk_size, overlap, end - overlap,
                       IF Strip(chunk) # <<>> THEN Append(chunks, Strip(chunk))
                       ELSE chunks)
    ELSE chunks

chunk_text(text, chunk_size, overlap) ==
    IF text = <<>> THEN <<>>
    ELSE ChunkLoop(text, chunk_size, overlap, 0, <<>>)

\* ------------------------------------------------------------------------
\* Keyword indexer
\* ------------------------------------------------------------------------
stop_words == {
    <<"t","h","e">>, <<"a","n","d">>, <<"f","o","r">>, <<"a","r","e">>,
    <<"b","u","t">>, <<"n","o","t">>, <<"y","o","u">>, <<"a","l","l">>,
    <<"c","a","n">>, <<"h","a","d">>, <<"h","e","r">>, <<"w","a","s">>,
    <<"o","n","e">>, <<"o","u","r">>, <<"o","u","t">>, <<"h","a","s">>,
    <<"h","a","v","e">>, <<"b","e","e","n">>, <<"f","r","o","m">>,
    <<"t","h","e","y">>, <<"w","e","r","e">>, <<"m","a","n","y">>,
    <<"s","o","m","e">>, <<"t","h","e","m">>, <<"t","h","i","s">>,
    <<"t","h","a","t">>, <<"w","i","t","h">>, <<"w","i","l","l">>,
    <<"w","o","u","l","d">>, <<"t","h","e","r","e">>, <<"t","h","e","i","r">>,
    <<"w","h","a","t">>, <<"w","h","i","c","h">>, <<"w","h","e","n">>,
    <<"w","h","e","r","e">>, <<"w","h","i","l","e">>, <<"i","n","t","o">>,
    <<"m","o","r","e">>, <<"o","t","h","e","r">>, <<"c","o","u","l","d">>,
    <<"s","h","o","u","l","d">> }

\* \b at 0-based position p of s: exactly one side is a word character
WordBoundary(s, p) ==
    LET before == p >= 1 /\ IsWordChar(s[p])
        after == p < Len(s) /\ IsWordChar(s[p + 1])
    IN  before # after

\* number of letters of s from 1-based index i on
RECURSIVE LetterRun(_, _)
LetterRun(s, i) ==
    IF i <= Len(s) /\ IsLetter(s[i]) THEN 1 + LetterRun(s, i + 1) ELSE 0

\* the longest n >= 3 (greedy, then backtracking) such that
\* \b[a-zA-Z]{3,}\b matches s[i .. i+n-1]; 0 when there is no match at i
MatchAt(s, i) ==
    LET run == LetterRun(s, i)
        ok == {n \in 3..run : WordBoundary(s, i - 1 + n)}
    IN  IF WordBoundary(s, i - 1) /\ ok # {}
        THEN CHOOSE n \in ok : \A m \in ok : m <= n
        ELSE 0

\* re.findall: leftmost non-overlapping matches, scanning from index i
RECURSIVE FindAll(_, _)
FindAll(s, i) ==
    IF i > Len(s) THEN <<>>
    ELSE LET n == MatchAt(s, i)
         IN  IF n > 0 THEN <<SubSeq(s, i, i + n - 1)>> \o FindAll(s, i + n)
             ELSE FindAll(s, i + 1)

\* get_text_keywords without the stop-word filter
get_text_keywords_NoStop(text) ==
    FindAll(Lower(text), 1)

get_text_keywords(text) ==
    SelectSeq(FindAll(Lower(text), 1), LAMBDA w : w \notin stop_words)

\* ------------------------------------------------------------------------
\* Similarity scorer.  The float score is kept as the exact fraction
\* <<numerator, denominator>>; 0.0 is <<0, 1>>.
\* ------------------------------------------------------------------------
\* calculate_text_similarity with the keywords of the first text as the
\* denominator
calculate_text_similarity_Overlap(text1, text2) ==
    LET words1 == Range(get_text_keywords(text1))
        words2 == Range(get_text_keywords(text2))
    IN  IF words1 = {} \/ words2 = {} THEN <<0, 1>>
        ELSE <<Cardinality(words1 \cap words2), Cardinality(words1)>>

calculate_text_similarity(text1, text2) ==
    LET words1 == Range(get_text_keywords(text1))
        words2 == Range(get_text_keywords(text2))
    IN  IF words1 = {} \/ words2 = {} THEN <<0, 1>>
        ELSE <<Cardinality(words1 \cap words2), Cardinality(words1 \cup words2)>>

ScoreGt(a, b) == a[1] * b[2] > b[1] * a[2]

\* list.sort(key=score, reverse=True): stable, so equal scores keep their
\* order; Insert puts x behind every element whose score is not smaller
RECURSIVE Insert(_, _)
Insert(sorted, x) ==
    IF sorted = <<>> THEN <<x>>
    ELSE IF ScoreGt(x.score, Head(sorted).score) THEN <<x>> \o sorted
    ELSE <<Head(sorted)>> \o Insert(Tail(sorted), x)

RECURSIVE SortByScore(_, _)
SortByScore(items, sorted) ==
    IF items = <<>> THEN sorted
    ELSE SortByScore(Tail(items), Insert(sorted, Head(items)))

\* seq[:n], n of either sign
Prefix(seq, n) ==
    LET m == IF n >= 0 THEN Min2(n, Len(seq))
             ELSE IF Len(seq) + n > 0 THEN Len(seq) + n ELSE 0
    IN  SubSeq(seq, 1, m)

\* the scoring loop of semantic_search over the chunks read from the store
RECURSIVE ScoreChunks(_, _)
ScoreChunks(query, chunks) ==
    IF chunks = <<>> THEN <<>>
    ELSE LET chunk == Head(chunks)
             score == calculate_text_similarity(query, chunk.text)
             rest == ScoreChunks(query, Tail(chunks))
         IN  IF chunk.text # <<>> /\ ScoreGt(score, <<0, 1>>)
             THEN <<[document_id |-> chunk.document_id, chunk_text |-> chunk.text,
                     score |-> score]>> \o rest
             ELSE rest

\* semantic_search results cut to the limit before they are sorted
RankedResults_CutFirst(query, limit, chunks) ==
    SortByScore(Prefix(ScoreChunks(query, chunks), limit), <<>>)

\* results of semantic_search before the filename join
RankedResults(query, limit, chunks) ==
    Prefix(SortByScore(ScoreChunks(query, chunks), <<>>), limit)

\* ------------------------------------------------------------------------
\* Users and uploaded files
\* ------------------------------------------------------------------------
\* the user store: id |-> role (register creates role "user")
UserRole == [alice |-> "user", root |-> "admin"]

Users == DOMAIN UserRole

\* db.users when the server starts: the accounts of the callers
InitialUsers == <<
    [id |-> "alice", email |-> "alice@dms", role |-> UserRole["alice"]],
    [id |-> "root", email |-> "root@dms", role |-> UserRole["root"]] >>

\* the addresses a register request may carry: one that has an account and
\* two that have none
Emails == {"alice@dms", "bob@dms", "carol@dms"}

TextCatDog == <<"c","a","t">> \o Rep(" ", 997) \o <<"d","o","g">>

\* the uploads a request may carry
Files == {
    \* a plain-text file of 1003 characters: two windows, "cat" and "dog"
    [filename |-> <<"a",".","t","x","t">>, content_type |-> CtText,
     content |-> [format |-> "plain", text |-> TextCatDog, raw |-> TextCatDog]],
    \* a PDF sent with a generic type and an upper-case suffix
    [filename |-> <<"b",".","P","D","F">>, content_type |-> CtBinary,
     content |-> [format |-> "pdf", text |-> <<"d","o","g">>,
                  raw |-> <<"%","P","D","F">>]],
    \* an executable: neither type nor suffix is supported
    [filename |-> <<"c",".","e","x","e">>, content_type |-> CtBinary,
     content |-> [format |-> "other", text |-> <<>>, raw |-> <<"M","Z">>]],
    \* corrupt bytes declared as PDF: the parser raises, no text
    [filename |-> <<"d">>, content_type |-> CtPdf,
     content |-> [format |-> "other", text |-> <<>>, raw |-> <<"x","y","z">>]] }

DocIds == 1..MaxUploads

Queries == { <<"T","h","e"," ","D","O","G",","," ","d","o","g","s">>,
             <<"b","i","r","d">> }

Limits == {1, 10}

\* ------------------------------------------------------------------------
\* State
\* ------------------------------------------------------------------------
VARIABLES
    documents,        \* db.documents: doc id |-> record
    document_chunks,  \* db.document_chunks, in insertion order
    audit_logs,       \* number of records of db.audit_logs
    search_queries,   \* number of records of db.search_queries
    uploads,          \* upload_document requests, running and finished
    deletes,          \* delete_document requests
    searches,         \* semantic_search requests
    faults,           \* store calls that have raised so far
    chats,            \* rag_chat requests
    fn,               \* the call of a pure function under study, or <<>>
    users,            \* db.users, in insertion order
    registers         \* register requests

vars == <<documents, document_chunks, audit_logs, search_queries,
          uploads, deletes, searches, faults, chats, fn, users, registers>>

Init ==
    /\ documents = <<>>
    /\ document_chunks = <<>>
    /\ audit_logs = 0
    /\ search_queries = 0
    /\ uploads = <<>>
    /\ deletes = <<>>
    /\ searches = <<>>
    /\ faults = 0
    /\ chats = <<>>
    /\ users = InitialUsers
    /\ registers = <<>>
    /\ fn = <<>>

Stored(d) == d \in DOMAIN documents

\* db.documents.update_one({"id": d}, {"$set": fields}): no match, no change
update_one(docs, d, fields) ==
    IF d \in DOMAIN docs
    THEN [docs EXCEPT ![d] = [k \in DOMAIN docs[d] |->
                                 IF k \in DOMAIN fields THEN fields[k] ELSE docs[d][k]]]
    ELSE docs

\* db.documents.delete_one({"id": d})
delete_one(docs, d) == [x \in DOMAIN docs \ {d} |-> docs[x]]

\* db.document_chunks.delete_many({"document_id": d})
delete_many(chunks, d) == SelectSeq(chunks, LAMBDA c : c.document_id # d)

ChunksOf(d) == SelectSeq(document_chunks, LAMBDA c : c.document_id = d)

\* requests received so far
Requests ==
    Len(uploads) + Len(deletes) + Len(searches) + Len(chats) + Len(registers)

\* ------------------------------------------------------------------------
\* upload_document
\* ------------------------------------------------------------------------
\* UploadRejected with the type check placed after the insert of the record
UploadRejected_AfterInsert(u, f) ==
    /\ Requests < MaxRequests /\ Len(uploads) < MaxUploads
    /\ ~ TypeSupported(f.content_type, f.filename)
    /\ documents' = [d \in DOMAIN documents \cup {Len(uploads) + 1} |->
          IF d = Len(uploads) + 1
          THEN [filename |-> f.filename, content_type |-> f.content_type,
                status |-> "processing", uploaded_by |-> u, chunk_count |-> 0]
          ELSE documents[d]]
    /\ uploads' = Append(uploads,
          [user |-> u, filename |-> f.filename, content_type |-> f.content_type,
           doc_id |-> 0, chunks |-> <<>>, i |-> 0, pc |-> "done",
           raised |-> "none", result |-> "unsupported"])
    /\ UNCHANGED <<document_chunks, audit_logs, search_queries,
                   deletes, searches, faults,
                   chats, fn,
                   users, registers>>

\* the type check fails: 400 before anything is stored
UploadRejected(u, f) ==
    /\ Requests < MaxRequests /\ Len(uploads) < MaxUploads
    /\ ~ TypeSupported(f.content_type, f.filename)
    /\ uploads' = Append(uploads,
          [user |-> u, filename |-> f.filename, content_type |-> f.content_type,
           doc_id |-> 0, chunks |-> <<>>, i |-> 0, pc |-> "done",
           raised |-> "none", result |-> "unsupported"])
    /\ UNCHANGED <<documents, document_chunks, audit_logs, search_queries,
                   deletes, searches, faults,
                   chats, fn,
                   users, registers>>

\* the record is inserted with status "processing"; the text is extracted
\* and chunked before the next await
UploadInsertDoc(u, f) ==
    /\ Requests < MaxRequests /\ Len(uploads) < MaxUploads
    /\ TypeSupported(f.content_type, f.filename)
    /\ LET doc_id == Len(uploads) + 1
           text == extract_text_from_file(f.content, f.content_type, f.filename)
           chunks == chunk_text(text, DefaultChunkSize, DefaultOverlap)
       IN  /\ documents' = [d \in DOMAIN documents \cup {doc_id} |->
                IF d = doc_id
                THEN [filename |-> f.filename, content_type |-> f.content_type,
                      status |-> "processing", uploaded_by |-> u, chunk_count |-> 0]
                ELSE documents[d]]
           /\ uploads' = Append(uploads,
                [user |-> u, filename |-> f.filename, content_type |-> f.content_type,
                 doc_id |-> doc_id, chunks |-> chunks, i |-> 0,
                 pc |-> IF chunks = <<>> THEN "set_indexed" ELSE "chunks",
                 raised |-> "none", result |-> "none"])
    /\ UNCHANGED <<document_chunks, audit_logs, search_queries,
                   deletes, searches, faults,
                   chats, fn,
                   users, registers>>

\* one iteration of the loop over enumerate(chunks)
UploadInsertChunk(r) ==
    /\ uploads[r].pc = "chunks"
    /\ LET q == uploads[r]
           chunk == q.chunks[q.i + 1]
       IN  /\ document_chunks' = Append(document_chunks,
                [document_id |-> q.doc_id, chunk_index |-> q.i, text |-> chunk,
                 keywords |-> get_text_keywords(chunk)])
           /\ uploads' = [uploads EXCEPT ![r].i = q.i + 1,
                ![r].pc = IF q.i + 1 = Len(q.chunks) THEN "set_indexed" ELSE "chunks"]
    /\ UNCHANGED <<documents, audit_logs, search_queries, deletes, searches, faults,
                   chats, fn,
                   users, registers>>

\* UploadSetIndexed with chunk_count left out of the update
UploadSetIndexed_NoCount(r) ==
    /\ uploads[r].pc = "set_indexed"
    /\ documents' = update_one(documents, uploads[r].doc_id, [status |-> "indexed"])
    /\ uploads' = [uploads EXCEPT ![r].pc = "audit"]
    /\ UNCHANGED <<document_chunks, audit_logs, search_queries, deletes, searches, faults,
                   chats, fn,
                   users, registers>>

\* update_one: status "indexed", chunk_count len(chunks)
UploadSetIndexed(r) ==
    /\ uploads[r].pc = "set_indexed"
    /\ documents' = update_one(documents, uploads[r].doc_id,
          [status |-> "indexed", chunk_count |-> Len(uploads[r].chunks)])
    /\ uploads' = [uploads EXCEPT ![r].pc = "audit"]
    /\ UNCHANGED <<document_chunks, audit_logs, search_queries, deletes, searches, faults,
                   chats, fn,
                   users, registers>>

\* log_audit, then the response
UploadAudit(r) ==
    /\ uploads[r].pc = "audit"
    /\ audit_logs' = audit_logs + 1
    /\ uploads' = [uploads EXCEPT ![r].pc = "done", ![r].result = "indexed"]
    /\ UNCHANGED <<documents, document_chunks, search_queries, deletes, searches, faults,
                   chats, fn,
                   users, registers>>

\* the store call the request is waiting for raises inside the try block;
\* raised remembers which call it was
UploadRaise(r) ==
    /\ uploads[r].pc \in {"chunks", "set_indexed", "audit"}
    /\ faults < MaxFaults
    /\ faults' = faults + 1
    /\ uploads' = [uploads EXCEPT ![r].pc = "handler", ![r].raised = uploads[r].pc]
    /\ UNCHANGED <<documents, document_chunks, audit_logs, search_queries,
                   deletes, searches,
                   chats, fn,
                   users, registers>>

\* the except block: status "failed", then 500
UploadHandler(r) ==
    /\ uploads[r].pc = "handler"
    /\ documents' = update_one(documents, uploads[r].doc_id, [status |-> "failed"])
    /\ uploads' = [uploads EXCEPT ![r].pc = "done", ![r].result = "error"]
    /\ UNCHANGED <<document_chunks, audit_logs, search_queries, deletes, searches, faults,
                   chats, fn,
                   users, registers>>

\* the update_one of the except block raises itself: the request ends with
\* that exception
UploadHandlerRaise(r) ==
    /\ uploads[r].pc = "handler"
    /\ faults < MaxFaults
    /\ faults' = faults + 1
    /\ uploads' = [uploads EXCEPT ![r].pc = "done", ![r].result = "unhandled"]
    /\ UNCHANGED <<documents, document_chunks, audit_logs, search_queries,
                   deletes, searches,
                   chats, fn,
                   users, registers>>

\* ------------------------------------------------------------------------
\* delete_document
\* ------------------------------------------------------------------------
\* find_one finds nothing: 404
DeleteNotFound(u, d) ==
    /\ Requests < MaxRequests
    /\ ~ Stored(d)
    /\ deletes' = Append(deletes,
          [user |-> u, doc_id |-> d, pc |-> "done", result |-> "not_found"])
    /\ UNCHANGED <<documents, document_chunks, audit_logs, search_queries,
                   uploads, searches, faults,
                   chats, fn,
                   users, registers>>

\* DeleteForbidden with the owner left out of the test: only an admin passes
DeleteForbidden_AdminOnly(u, d) ==
    /\ Requests < MaxRequests
    /\ Stored(d)
    /\ UserRole[u] # "admin"
    /\ deletes' = Append(deletes,
          [user |-> u, doc_id |-> d, pc |-> "done", result |-> "forbidden"])
    /\ UNCHANGED <<documents, document_chunks, audit_logs, search_queries,
                   uploads, searches, faults,
                   chats, fn,
                   users, registers>>

\* the caller is neither an admin nor the uploader: 403
DeleteForbidden(u, d) ==
    /\ Requests < MaxRequests
    /\ Stored(d)
    /\ UserRole[u] # "admin" /\ documents[d].uploaded_by # u
    /\ deletes' = Append(deletes,
          [user |-> u, doc_id |-> d, pc |-> "done", result |-> "forbidden"])
    /\ UNCHANGED <<documents, document_chunks, audit_logs, search_queries,
                   uploads, searches, faults,
                   chats, fn,
                   users, registers>>

\* find_one finds the document and the caller may delete it
DeleteFind(u, d) ==
    /\ Requests < MaxRequests
    /\ Stored(d)
    /\ ~ (UserRole[u] # "admin" /\ documents[d].uploaded_by # u)
    /\ deletes' = Append(deletes,
          [user |-> u, doc_id |-> d, pc |-> "delete_doc", result |-> "none"])
    /\ UNCHANGED <<documents, document_chunks, audit_logs, search_queries,
                   uploads, searches, faults,
                   chats, fn,
                   users, registers>>

DeleteDoc(r) ==
    /\ deletes[r].pc = "delete_doc"
    /\ documents' = delete_one(documents, deletes[r].doc_id)
    /\ deletes' = [deletes EXCEPT ![r].pc = "delete_chunks"]
    /\ UNCHANGED <<document_chunks, audit_logs, search_queries, uploads, searches, faults,
                   chats, fn,
                   users, registers>>

DeleteChunks(r) ==
    /\ deletes[r].pc = "delete_chunks"
    /\ document_chunks' = delete_many(document_chunks, deletes[r].doc_id)
    /\ deletes' = [deletes EXCEPT ![r].pc = "audit"]
    /\ UNCHANGED <<documents, audit_logs, search_queries, uploads, searches, faults,
                   chats, fn,
                   users, registers>>

DeleteAudit(r) ==
    /\ deletes[r].pc = "audit"
    /\ audit_logs' = audit_logs + 1
    /\ deletes' = [deletes EXCEPT ![r].pc = "done", ![r].result = "ok"]
    /\ UNCHANGED <<documents, document_chunks, search_queries, uploads, searches, faults,
                   chats, fn,
                   users, registers>>

\* a store call of the request raises: nothing catches it, 500
DeleteRaise(r) ==
    /\ deletes[r].pc \in {"delete_doc", "delete_chunks", "audit"}
    /\ faults < MaxFaults
    /\ faults' = faults + 1
    /\ deletes' = [deletes EXCEPT ![r].pc = "done", ![r].result = "error"]
    /\ UNCHANGED <<documents, document_chunks, audit_logs, search_queries,
                   uploads, searches,
                   chats, fn,
                   users, registers>>

\* ------------------------------------------------------------------------
\* semantic_search
\* ------------------------------------------------------------------------
DeletedDocs == {deletes[r].doc_id : r \in {x \in 1..Len(deletes) : deletes[x].result = "ok"}}

\* the request arrives and the query is logged in db.search_queries;
\* after_deletes remembers the documents whose Delete had returned by then
SearchStart(query, limit) ==
    /\ Requests < MaxRequests
    /\ search_queries' = search_queries + 1
    /\ searches' = Append(searches,
          [query |-> query, limit |-> limit, pc |-> "find", chunks |-> <<>>,
           results |-> <<>>, k |-> 0, final_results |-> <<>>, after_deletes |-> DeletedDocs,
           result |-> "none"])
    /\ UNCHANGED <<documents, document_chunks, audit_logs, uploads, deletes, faults,
                   chats, fn,
                   users, registers>>

\* find({}) reads every chunk into the local chunks; scoring, sorting and
\* the limit follow
SearchFind(r) ==
    /\ searches[r].pc = "find"
    /\ LET results == RankedResults(searches[r].query, searches[r].limit,
                                    document_chunks)
       IN  searches' = [searches EXCEPT ![r].chunks = document_chunks,
                ![r].results = results, ![r].k = 1,
                ![r].pc = IF results = <<>> THEN "audit" ELSE "join"]
    /\ UNCHANGED <<documents, document_chunks, audit_logs, search_queries,
                   uploads, deletes, faults,
                   chats, fn,
                   users, registers>>

\* SearchJoin without the test that the document was found
SearchJoin_NoCheck(r) ==
    /\ searches[r].pc = "join"
    /\ LET q == searches[r]
           res == q.results[q.k]
           final == Append(q.final_results,
                      [document_id |-> res.document_id,
                       filename |-> IF Stored(res.document_id)
                                    THEN documents[res.document_id].filename
                                    ELSE <<>>,
                       chunk_text |-> Prefix(res.chunk_text, 500),
                       score |-> res.score])
       IN  searches' = [searches EXCEPT ![r].final_results = final, ![r].k = q.k + 1,
                ![r].pc = IF q.k = Len(q.results) THEN "audit" ELSE "join"]
    /\ UNCHANGED <<documents, document_chunks, audit_logs, search_queries,
                   uploads, deletes, faults,
                   chats, fn,
                   users, registers>>

\* one find_one of the filename loop: a result whose document is gone is
\* dropped
SearchJoin(r) ==
    /\ searches[r].pc = "join"
    /\ LET q == searches[r]
           res == q.results[q.k]
           final == IF Stored(res.document_id)
                    THEN Append(q.final_results,
                           [document_id |-> res.document_id,
                            filename |-> documents[res.document_id].filename,
                            chunk_text |-> Prefix(res.chunk_text, 500),
                            score |-> res.score])
                    ELSE q.final_results
       IN  searches' = [searches EXCEPT ![r].final_results = final, ![r].k = q.k + 1,
                ![r].pc = IF q.k = Len(q.results) THEN "audit" ELSE "join"]
    /\ UNCHANGED <<documents, document_chunks, audit_logs, search_queries,
                   uploads, deletes, faults,
                   chats, fn,
                   users, registers>>

SearchAudit(r) ==
    /\ searches[r].pc = "audit"
    /\ audit_logs' = audit_logs + 1
    /\ searches' = [searches EXCEPT ![r].pc = "done", ![r].result = "ok"]
    /\ UNCHANGED <<documents, document_chunks, search_queries, uploads, deletes, faults,
                   chats, fn,
                   users, registers>>

\* a store call of the request raises: 500, no results are returned
SearchRaise(r) ==
    /\ searches[r].pc \in {"find", "join", "audit"}
    /\ faults < MaxFaults
    /\ faults' = faults + 1
    /\ searches' = [searches EXCEPT ![r].pc = "done", ![r].result = "error",
                                    ![r].chunks = <<>>, ![r].final_results = <<>>]
    /\ UNCHANGED <<documents, document_chunks, audit_logs, search_queries,
                   uploads, deletes,
                   chats, fn,
                   users, registers>>

\* ------------------------------------------------------------------------
\* rag_chat
\* ------------------------------------------------------------------------
NoContext ==
    <<"N","o"," ","r","e","l","e","v","a","n","t"," ","d","o","c","u","m","e",
      "n","t","s"," ","f","o","u","n","d"," ","i","n"," ","t","h","e"," ","k",
      "n","o","w","l","e","d","g","e"," ","b","a","s","e",".">>

ExcerptPrefix ==
    <<"[","D","o","c","u","m","e","n","t"," ","e","x","c","e","r","p","t","]",
      ":"," ">>

TopChunks == 5
TopSources == 3

\* the scoring loop of rag_chat: every chunk with a text is kept, whatever
\* its score
RECURSIVE ScoreAllChunks(_, _)
ScoreAllChunks(message, chunks) ==
    IF chunks = <<>> THEN <<>>
    ELSE LET chunk == Head(chunks)
             rest == ScoreAllChunks(message, Tail(chunks))
         IN  IF chunk.text # <<>>
             THEN <<[document_id |-> chunk.document_id, text |-> chunk.text,
                     score |-> calculate_text_similarity(message, chunk.text)]>>
                  \o rest
             ELSE rest

\* top_chunks cut to five without sorting
top_chunks_Unsorted(message, chunks) ==
    Prefix(ScoreAllChunks(message, chunks), TopChunks)

\* scored_chunks sorted by score, cut to the first five
top_chunks(message, chunks) ==
    Prefix(SortByScore(ScoreAllChunks(message, chunks), <<>>), TopChunks)

\* "\n\n".join of one excerpt per chunk of top whose score is positive
RECURSIVE JoinExcerpts(_, _)
JoinExcerpts(top, joined) ==
    IF top = <<>> THEN joined
    ELSE LET chunk == Head(top)
         IN  IF ScoreGt(chunk.score, <<0, 1>>)
             THEN JoinExcerpts(Tail(top),
                     (IF joined = <<>> THEN <<>> ELSE joined \o <<"\n", "\n">>)
                     \o ExcerptPrefix \o chunk.text)
             ELSE JoinExcerpts(Tail(top), joined)

\* the context block handed to the language model
BuildContext(top) ==
    LET context == JoinExcerpts(top, <<>>)
    IN  IF context = <<>> THEN NoContext ELSE context

\* round(score, 3), in thousandths: the nearest, the even one of two
Round3(score) ==
    LET q == (1000 * score[1]) \div score[2]
        rem == (1000 * score[1]) % score[2]
    IN  IF 2 * rem > score[2] THEN q + 1
        ELSE IF 2 * rem = score[2] THEN q + (q % 2)
        ELSE q

\* the chunks of top_chunks[:3] the source loop has yet to look at
SourceChunks(top) == Prefix(top, TopSources)

\* the request arrives and find({}) reads every chunk; scoring, sorting, the
\* cut to five and the context follow; after_deletes remembers the
\* documents whose Delete had returned by then
ChatFind(message) ==
    /\ Requests < MaxRequests
    /\ LET top == top_chunks(message, document_chunks)
       IN  chats' = Append(chats,
              [message |-> message, pc |-> "respond", chunks |-> document_chunks,
               top_chunks |-> top, context |-> BuildContext(top),
               sources |-> <<>>, k |-> 1, after_deletes |-> DeletedDocs,
               result |-> "none"])
    /\ UNCHANGED <<documents, document_chunks, audit_logs, search_queries,
                   uploads, deletes, searches, faults, fn,
                   users, registers>>

\* the history is read, the language model answers, both messages are stored
\* in db.chat_history and the query is logged in db.search_queries
ChatRespond(r) ==
    /\ chats[r].pc = "respond"
    /\ search_queries' = search_queries + 1
    /\ chats' = [chats EXCEPT ![r].pc = "source"]
    /\ UNCHANGED <<documents, document_chunks, audit_logs, uploads, deletes,
                   searches, faults, fn,
                   users, registers>>

\* ChatSource that also purges the chunks of a document it does not find
ChatSource_Purge(r) ==
    /\ chats[r].pc = "source"
    /\ LET q == chats[r]
           top == SourceChunks(q.top_chunks)
       IN  IF q.k > Len(top)
           THEN /\ chats' = [chats EXCEPT ![r].pc = "done", ![r].result = "ok"]
                /\ UNCHANGED document_chunks
           ELSE LET chunk == top[q.k]
                    sources ==
                      IF ScoreGt(chunk.score, <<0, 1>>) /\ Stored(chunk.document_id)
                      THEN Append(q.sources,
                             [document_id |-> chunk.document_id,
                              filename |-> documents[chunk.document_id].filename,
                              relevance |-> Round3(chunk.score)])
                      ELSE q.sources
                IN  /\ chats' = [chats EXCEPT ![r].sources = sources, ![r].k = q.k + 1]
                    /\ document_chunks' =
                          IF Stored(chunk.document_id) THEN document_chunks
                          ELSE delete_many(document_chunks, chunk.document_id)
    /\ UNCHANGED <<documents, audit_logs, search_queries,
                   uploads, deletes, searches, faults, fn,
                   users, registers>>

\* one round of the source loop, with its find_one when the score is
\* positive; past the last round the response is returned
ChatSource(r) ==
    /\ chats[r].pc = "source"
    /\ LET q == chats[r]
           top == SourceChunks(q.top_chunks)
       IN  IF q.k > Len(top)
           THEN chats' = [chats EXCEPT ![r].pc = "done", ![r].result = "ok"]
           ELSE LET chunk == top[q.k]
                    sources ==
                      IF ScoreGt(chunk.score, <<0, 1>>) /\ Stored(chunk.document_id)
                      THEN Append(q.sources,
                             [document_id |-> chunk.document_id,
                              filename |-> documents[chunk.document_id].filename,
                              relevance |-> Round3(chunk.score)])
                      ELSE q.sources
                IN  chats' = [chats EXCEPT ![r].sources = sources, ![r].k = q.k + 1]
    /\ UNCHANGED <<documents, document_chunks, audit_logs, search_queries,
                   uploads, deletes, searches, faults, fn,
                   users, registers>>

\* the language model or a store call of the request raises: 500, no
\* response is returned
ChatRaise(r) ==
    /\ \/ chats[r].pc = "respond"
       \/ /\ chats[r].pc = "source"
          /\ chats[r].k <= Len(SourceChunks(chats[r].top_chunks))
          /\ ScoreGt(SourceChunks(chats[r].top_chunks)[chats[r].k].score, <<0, 1>>)
    /\ faults < MaxFaults
    /\ faults' = faults + 1
    /\ chats' = [chats EXCEPT ![r].pc = "done", ![r].result = "error",
                              ![r].chunks = <<>>, ![r].sources = <<>>]
    /\ UNCHANGED <<documents, document_chunks, audit_logs, search_queries,
                   uploads, deletes, searches, fn,
                   users, registers>>

\* ------------------------------------------------------------------------
\* Specification
\* ------------------------------------------------------------------------
Next ==
    \/ \E u \in Users, f \in Files : UploadRejected(u, f)
    \/ \E u \in Users, f \in Files : UploadInsertDoc(u, f)
    \/ \E r \in 1..Len(uploads) : UploadInsertChunk(r)
    \/ \E r \in 1..Len(uploads) : UploadSetIndexed(r)
    \/ \E r \in 1..Len(uploads) : UploadAudit(r)
    \/ \E r \in 1..Len(uploads) : UploadRaise(r)
    \/ \E r \in 1..Len(uploads) : UploadHandler(r)
    \/ \E r \in 1..Len(uploads) : UploadHandlerRaise(r)
    \/ \E u \in Users, d \in DocIds : DeleteNotFound(u, d)
    \/ \E u \in Users, d \in DocIds : DeleteForbidden(u, d)
    \/ \E u \in Users, d \in DocIds : DeleteFind(u, d)
    \/ \E r \in 1..Len(deletes) : DeleteDoc(r)
    \/ \E r \in 1..Len(deletes) : DeleteChunks(r)
    \/ \E r \in 1..Len(deletes) : DeleteAudit(r)
    \/ \E r \in 1..Len(deletes) : DeleteRaise(r)
    \/ \E q \in Queries, limit \in Limits : SearchStart(q, limit)
    \/ \E r \in 1..Len(searches) : SearchFind(r)
    \/ \E r \in 1..Len(searches) : SearchJoin(r)
    \/ \E r \in 1..Len(searches) : SearchAudit(r)
    \/ \E r \in 1..Len(searches) : SearchRaise(r)

Spec == Init /\ [][Next]_vars

\* ------------------------------------------------------------------------
\* Retrieval over a store left by earlier uploads
\* ------------------------------------------------------------------------
\* a plain text that starts with the first phrase and whose windows of
\* DefaultChunkSize, one every DefaultChunkSize - DefaultOverlap characters,
\* strip to the given phrases; width is the room of the first phrase
RECURSIVE Layout(_, _)
Layout(phrases, width) ==
    IF Len(phrases) = 1 THEN Head(phrases)
    ELSE Head(phrases) \o Rep(" ", width - Len(Head(phrases)))
         \o Layout(Tail(phrases), DefaultChunkSize - DefaultOverlap)

\* two plain-text files, the first uploaded by alice, the second by root
CorpusFiles == <<
    [filename |-> <<"e",".","t","x","t">>, content_type |-> CtText, user |-> "alice",
     text |-> Layout(<< <<"c","a","t"," ","d","o","g">>,
                        <<"d","o","g">>,
                        <<"b","i","r","d">> >>, DefaultChunkSize)],
    [filename |-> <<"f",".","t","x","t">>, content_type |-> CtText, user |-> "root",
     text |-> Layout(<< <<"d","o","g"," ","c","a","t">>,
                        <<"d","o","g">>,
                        <<"d","o","g"," ","f","i","s","h">>,
                        <<"d","o","g"," ","b","i","r","d">> >>, DefaultChunkSize)] >>

\* the stores a retrieval may find: no, one or both files indexed
Corpora == {SubSeq(CorpusFiles, 1, n) : n \in 0..Min2(Len(CorpusFiles), MaxUploads)}

\* the chunk records upload_document stores for document doc_id
ChunkRecords(doc_id, chunks) ==
    [j \in 1..Len(chunks) |->
        [document_id |-> doc_id, chunk_index |-> j - 1, text |-> chunks[j],
         keywords |-> get_text_keywords(chunks[j])]]

FileChunks(f) ==
    chunk_text(extract_text_from_file(
                   [format |-> "plain", text |-> f.text, raw |-> f.text],
                   f.content_type, f.filename),
               DefaultChunkSize, DefaultOverlap)

\* db.documents after the files were uploaded one after the other
IndexedDocuments(files) ==
    [d \in 1..Len(files) |->
        [filename |-> files[d].filename, content_type |-> files[d].content_type,
         status |-> "indexed", uploaded_by |-> files[d].user,
         chunk_count |-> Len(FileChunks(files[d]))]]

\* db.document_chunks after the files were uploaded one after the other
RECURSIVE IndexedChunks(_, _)
IndexedChunks(files, d) ==
    IF d > Len(files) THEN <<>>
    ELSE ChunkRecords(d, FileChunks(files[d])) \o IndexedChunks(files, d + 1)

RetrieveQueries == { <<"D","o","g"," ","t","h","e">>, <<"t","h","e"," ","e","m","u">> }

RetrieveLimits == {0, 3}

\* the server starts on a store that holds the files of one corpus, each
\* with its upload audit record; no request is in flight
InitRetrieve ==
    /\ \E files \in Corpora :
          /\ documents = IndexedDocuments(files)
          /\ document_chunks = IndexedChunks(files, 1)
          /\ audit_logs = Len(files)
    /\ search_queries = 0
    /\ uploads = <<>>
    /\ deletes = <<>>
    /\ searches = <<>>
    /\ faults = 0
    /\ chats = <<>>
    /\ users = InitialUsers
    /\ registers = <<>>
    /\ fn = <<>>

NextRetrieve ==
    \/ \E u \in Users, d \in DocIds : DeleteNotFound(u, d)
    \/ \E u \in Users, d \in DocIds : DeleteForbidden(u, d)
    \/ \E u \in Users, d \in DocIds : DeleteFind(u, d)
    \/ \E r \in 1..Len(deletes) : DeleteDoc(r)
    \/ \E r \in 1..Len(deletes) : DeleteChunks(r)
    \/ \E r \in 1..Len(deletes) : DeleteAudit(r)
    \/ \E r \in 1..Len(deletes) : DeleteRaise(r)
    \/ \E q \in RetrieveQueries, limit \in RetrieveLimits : SearchStart(q, limit)
    \/ \E r \in 1..Len(searches) : SearchFind(r)
    \/ \E r \in 1..Len(searches) : SearchJoin(r)
    \/ \E r \in 1..Len(searches) : SearchAudit(r)
    \/ \E r \in 1..Len(searches) : SearchRaise(r)
    \/ \E q \in RetrieveQueries : ChatFind(q)
    \/ \E r \in 1..Len(chats) : ChatRespond(r)
    \/ \E r \in 1..Len(chats) : ChatSource(r)
    \/ \E r \in 1..Len(chats) : ChatRaise(r)

SpecRetrieve == InitRetrieve /\ [][NextRetrieve]_vars

\* uploads, deletions and chats
NextChat ==
    \/ \E u \in Users, f \in Files : UploadRejected(u, f)
    \/ \E u \in Users, f \in Files : UploadInsertDoc(u, f)
    \/ \E r \in 1..Len(uploads) : UploadInsertChunk(r)
    \/ \E r \in 1..Len(uploads) : UploadSetIndexed(r)
    \/ \E r \in 1..Len(uploads) : UploadAudit(r)
    \/ \E r \in 1..Len(uploads) : UploadRaise(r)
    \/ \E r \in 1..Len(uploads) : UploadHandler(r)
    \/ \E r \in 1..Len(uploads) : UploadHandlerRaise(r)
    \/ \E u \in Users, d \in DocIds : DeleteNotFound(u, d)
    \/ \E u \in Users, d \in DocIds : DeleteForbidden(u, d)
    \/ \E u \in Users, d \in DocIds : DeleteFind(u, d)
    \/ \E r \in 1..Len(deletes) : DeleteDoc(r)
    \/ \E r \in 1..Len(deletes) : DeleteChunks(r)
    \/ \E r \in 1..Len(deletes) : DeleteAudit(r)
    \/ \E r \in 1..Len(deletes) : DeleteRaise(r)
    \/ \E q \in Queries : ChatFind(q)
    \/ \E r \in 1..Len(chats) : ChatRespond(r)
    \/ \E r \in 1..Len(chats) : ChatSource(r)
    \/ \E r \in 1..Len(chats) : ChatRaise(r)

SpecChat == Init /\ [][NextChat]_vars

\* ------------------------------------------------------------------------
\* chunk_text, one window at a time
\* ------------------------------------------------------------------------
MaxChunkText == 4
MaxChunkSize == 3

\* every text of at most n characters of the alphabet
Texts(alphabet, n) == UNION {[1..k -> alphabet] : k \in 0..n}

\* a text of the given length without whitespace
LetterText(length) == [i \in 1..length |-> LowerLetters[((i - 1) % 26) + 1]]

TextLengths == {0, 1, 200, 201, 800, 801, 1000, 1001, 1200, 1600, 1601, 2400, 5000}

\* calls of chunk_text on short texts of letters and spaces, with every
\* small size and overlap
ShortCalls ==
    { [op |-> "chunk_text", text |-> t, chunk_size |-> s, overlap |-> o,
       start |-> 0, chunks |-> <<>>, pc |-> "enter"] :
          t \in Texts({"a", " "}, MaxChunkText),
          s \in 1..MaxChunkSize, o \in 0..MaxChunkSize - 1 }

\* calls of chunk_text on texts without whitespace, with the default size
\* and overlap
DefaultCalls ==
    { [op |-> "chunk_text", text |-> LetterText(length),
       chunk_size |-> DefaultChunkSize, overlap |-> DefaultOverlap,
       start |-> 0, chunks |-> <<>>, pc |-> "enter"] : length \in TextLengths }

ChunkCalls == ShortCalls \cup DefaultCalls

InitFn(calls) ==
    /\ fn \in calls
    /\ documents = <<>>
    /\ document_chunks = <<>>
    /\ audit_logs = 0
    /\ search_queries = 0
    /\ uploads = <<>>
    /\ deletes = <<>>
    /\ searches = <<>>
    /\ faults = 0
    /\ chats = <<>>
    /\ users = InitialUsers
    /\ registers = <<>>

InitChunk == InitFn({c \in ChunkCalls : c.overlap < c.chunk_size})

InitChunkShort == InitFn({c \in ShortCalls : c.overlap < c.chunk_size})

\* if not text: return []; otherwise the loop is entered with start = 0
ChunkEnter ==
    /\ fn.op = "chunk_text" /\ fn.pc = "enter"
    /\ fn' = [fn EXCEPT !.pc = IF fn.text = <<>> THEN "done" ELSE "loop"]
    /\ UNCHANGED <<documents, document_chunks, audit_logs, search_queries,
                   uploads, deletes, searches, faults, chats,
                   users, registers>>

\* the loop body, where the cursor moves on only behind a window that is kept
ChunkWindow_Stall ==
    /\ fn.op = "chunk_text" /\ fn.pc = "loop"
    /\ fn.start < Len(fn.text)
    /\ LET end == fn.start + fn.chunk_size
           chunk == SubSeq(fn.text, fn.start + 1, Min2(end, Len(fn.text)))
       IN  fn' = IF Strip(chunk) # <<>>
                 THEN [fn EXCEPT !.chunks = Append(fn.chunks, Strip(chunk)),
                                 !.start = end - fn.overlap]
                 ELSE fn
    /\ UNCHANGED <<documents, document_chunks, audit_logs, search_queries,
                   uploads, deletes, searches, faults, chats,
                   users, registers>>

\* the loop body, where the next window starts where this one ends
ChunkWindow_NoOverlap ==
    /\ fn.op = "chunk_text" /\ fn.pc = "loop"
    /\ fn.start < Len(fn.text)
    /\ LET end == fn.start + fn.chunk_size
           chunk == SubSeq(fn.text, fn.start + 1, Min2(end, Len(fn.text)))
       IN  fn' = [fn EXCEPT !.chunks = IF Strip(chunk) # <<>>
                                       THEN Append(fn.chunks, Strip(chunk))
                                       ELSE fn.chunks,
                            !.start = end]
    /\ UNCHANGED <<documents, document_chunks, audit_logs, search_queries,
                   uploads, deletes, searches, faults, chats,
                   users, registers>>

\* one round of while start < len(text): the window text[start:end] is kept
\* when it is not blank, and the cursor moves to end - overlap
ChunkWindow ==
    /\ fn.op = "chunk_text" /\ fn.pc = "loop"
    /\ fn.start < Len(fn.text)
    /\ LET end == fn.start + fn.chunk_size
           chunk == SubSeq(fn.text, fn.start + 1, Min2(end, Len(fn.text)))
       IN  fn' = [fn EXCEPT !.chunks = IF Strip(chunk) # <<>>
                                       THEN Append(fn.chunks, Strip(chunk))
                                       ELSE fn.chunks,
                            !.start = end - fn.overlap]
    /\ UNCHANGED <<documents, document_chunks, audit_logs, search_queries,
                   uploads, deletes, searches, faults, chats,
                   users, registers>>

\* the loop condition fails: return chunks
ChunkReturn ==
    /\ fn.op = "chunk_text" /\ fn.pc = "loop"
    /\ fn.start >= Len(fn.text)
    /\ fn' = [fn EXCEPT !.pc = "done"]
    /\ UNCHANGED <<documents, document_chunks, audit_logs, search_queries,
                   uploads, deletes, searches, faults, chats,
                   users, registers>>

NextChunk ==
    \/ ChunkEnter
    \/ ChunkWindow
    \/ ChunkReturn

SpecChunk == InitChunk /\ [][NextChunk]_vars

\* the interpreter keeps running a call that can take a step
SpecChunkFair == InitChunkShort /\ [][NextChunk]_vars /\ WF_vars(NextChunk)

\* ------------------------------------------------------------------------
\* get_text_keywords on short texts
\* ------------------------------------------------------------------------
MaxKeywordText == 4

\* letters of both cases, a digit, the underscore, punctuation and the space
KeywordAlphabet == {"t", "h", "e", "E", "1", "_", ",", " "}

InitKeywords ==
    InitFn({ [op |-> "get_text_keywords", text |-> t, words |-> <<>>, pc |-> "call"] :
                t \in Texts(KeywordAlphabet, MaxKeywordText) })

KeywordsCall ==
    /\ fn.op = "get_text_keywords" /\ fn.pc = "call"
    /\ fn' = [fn EXCEPT !.words = get_text_keywords(fn.text), !.pc = "done"]
    /\ UNCHANGED <<documents, document_chunks, audit_logs, search_queries,
                   uploads, deletes, searches, faults, chats,
                   users, registers>>

NextKeywords == KeywordsCall

SpecKeywords == InitKeywords /\ [][NextKeywords]_vars

\* ------------------------------------------------------------------------
\* calculate_text_similarity on pairs of short texts
\* ------------------------------------------------------------------------
MaxWords == 2

\* three keywords and a stop word
Vocabulary == { <<"c","a","t">>, <<"D","o","g">>, <<"e","m","u">>, <<"t","h","e">> }

\* the words of a sequence with a space between them
RECURSIVE JoinWords(_)
JoinWords(words) ==
    IF words = <<>> THEN <<>>
    ELSE IF Len(words) = 1 THEN Head(words)
    ELSE Head(words) \o <<" ">> \o JoinWords(Tail(words))

WordTexts == { JoinWords(ws) : ws \in UNION {[1..n -> Vocabulary] : n \in 0..MaxWords} }

InitSimilarity ==
    InitFn({ [op |-> "calculate_text_similarity", text1 |-> a, text2 |-> b,
              score |-> <<0, 1>>, pc |-> "call"] : a \in WordTexts, b \in WordTexts })

SimilarityCall ==
    /\ fn.op = "calculate_text_similarity" /\ fn.pc = "call"
    /\ fn' = [fn EXCEPT !.score = calculate_text_similarity(fn.text1, fn.text2),
                        !.pc = "done"]
    /\ UNCHANGED <<documents, document_chunks, audit_logs, search_queries,
                   uploads, deletes, searches, faults, chats,
                   users, registers>>

NextSimilarity == SimilarityCall

SpecSimilarity == InitSimilarity /\ [][NextSimilarity]_vars

\* ------------------------------------------------------------------------
\* extract_text_from_file: the parser chosen for a declared type and a name
\* ------------------------------------------------------------------------
CtNone == ""

DeclaredTypes == allowed_types \cup {CtBinary, CtNone}

FileNames == {
    <<"a">>, <<"a",".","p","d","f">>, <<"a",".","d","o","c","x">>,
    <<"a",".","x","l","s","x">>, <<"a",".","p","p","t","x">>, <<"a",".","t","x","t">>,
    <<"a",".","P","D","F">>, <<"a",".","e","x","e">>, <<"p","d","f">>,
    <<"a",".","t","x","t",".","p","d","f">> }

InitVariant ==
    InitFn({ [op |-> "extract_text_from_file", content_type |-> ct, filename |-> f,
              variant |-> "none", pc |-> "call"] :
                ct \in DeclaredTypes, f \in FileNames })

ExtractCall ==
    /\ fn.op = "extract_text_from_file" /\ fn.pc = "call"
    /\ fn' = [fn EXCEPT !.variant = Variant(fn.content_type, fn.filename),
                        !.pc = "done"]
    /\ UNCHANGED <<documents, document_chunks, audit_logs, search_queries,
                   uploads, deletes, searches, faults, chats,
                   users, registers>>

NextVariant == ExtractCall

SpecVariant == InitVariant /\ [][NextVariant]_vars

\* ------------------------------------------------------------------------
\* register
\* ------------------------------------------------------------------------
\* db.users.find_one({"email": email}) finds a record
Registered(email) == \E j \in 1..Len(users) : users[j].email = email

\* find_one finds a record for the email: 400, nothing is stored
RegisterRejected(email) ==
    /\ Requests < MaxRequests
    /\ Registered(email)
    /\ registers' = Append(registers,
          [email |-> email, user_id |-> "", pc |-> "done", result |-> "rejected"])
    /\ UNCHANGED <<documents, document_chunks, audit_logs, search_queries,
                   uploads, deletes, searches, faults, chats, fn, users>>

\* find_one finds no record for the email: the handler goes on with a fresh
\* user id
RegisterFind(email) ==
    /\ Requests < MaxRequests
    /\ ~ Registered(email)
    /\ registers' = Append(registers,
          [email |-> email, user_id |-> ToString(Len(registers) + 1),
           pc |-> "insert", result |-> "none"])
    /\ UNCHANGED <<documents, document_chunks, audit_logs, search_queries,
                   uploads, deletes, searches, faults, chats, fn, users>>

\* db.users.insert_one(user), with the role "user"
RegisterInsert(r) ==
    /\ registers[r].pc = "insert"
    /\ users' = Append(users,
          [id |-> registers[r].user_id, email |-> registers[r].email,
           role |-> "user"])
    /\ registers' = [registers EXCEPT ![r].pc = "audit"]
    /\ UNCHANGED <<documents, document_chunks, audit_logs, search_queries,
                   uploads, deletes, searches, faults, chats, fn>>

\* log_audit, then the token is returned
RegisterAudit(r) ==
    /\ registers[r].pc = "audit"
    /\ audit_logs' = audit_logs + 1
    /\ registers' = [registers EXCEPT ![r].pc = "done", ![r].result = "ok"]
    /\ UNCHANGED <<documents, document_chunks, search_queries,
                   uploads, deletes, searches, faults, chats, fn, users>>

\* a store call of the request raises: 500
RegisterRaise(r) ==
    /\ registers[r].pc \in {"insert", "audit"}
    /\ faults < MaxFaults
    /\ faults' = faults + 1
    /\ registers' = [registers EXCEPT ![r].pc = "done", ![r].result = "error"]
    /\ UNCHANGED <<documents, document_chunks, audit_logs, search_queries,
                   uploads, deletes, searches, chats, fn, users>>

NextRegister ==
    \/ \E e \in Emails : RegisterRejected(e)
    \/ \E e \in Emails : RegisterFind(e)
    \/ \E r \in 1..Len(registers) : RegisterInsert(r)
    \/ \E r \in 1..Len(registers) : RegisterAudit(r)
    \/ \E r \in 1..Len(registers) : RegisterRaise(r)

SpecRegister == Init /\ [][NextRegister]_vars

\* ------------------------------------------------------------------------
\* Properties
\* ------------------------------------------------------------------------
Statuses == {"pending", "processing", "indexed", "failed"}

TypeOK ==
    /\ DOMAIN documents \subseteq DocIds
    /\ \A d \in DOMAIN documents : documents[d].status \in Statuses
    /\ \A j \in 1..Len(document_chunks) : document_chunks[j].document_id \in DocIds
    /\ Requests <= MaxRequests
    /\ faults <= MaxFaults

\* C1: once a Delete of document d has returned successfully, the chunk
\* store holds no chunk whose document_id is d.
C1_NoChunkAfterDelete ==
    \A r \in 1..Len(deletes) :
        deletes[r].result = "ok" => ChunksOf(deletes[r].doc_id) = <<>>

\* C2: a stored status of indexed or failed is never changed by a later
\* step; in particular indexed never becomes failed.
C2_TerminalStatus ==
    [][\A d \in DOMAIN documents :
          (documents[d].status \in {"indexed", "failed"} /\ d \in DOMAIN documents')
             => documents'[d].status = documents[d].status]_vars

\* C3: in every state, the chunk_count of every stored document equals the
\* number of chunks stored for it.
C3_ChunkCountExact ==
    \A d \in DOMAIN documents : documents[d].chunk_count = Len(ChunksOf(d))

\* C4: an upload that ended in the except block because the insert of chunk
\* number k raised leaves its document with status failed and chunk_count k.
C4_FailedChunkCount ==
    \A r \in 1..Len(uploads) :
        LET q == uploads[r]
        IN  (q.result = "error" /\ q.raised = "chunks" /\ Stored(q.doc_id))
               => /\ documents[q.doc_id].status = "failed"
                  /\ documents[q.doc_id].chunk_count = q.i

\* C5: a finished upload that created a document record leaves the record,
\* unless it was deleted, with status indexed or failed.
C5_FinishedNotProcessing ==
    \A r \in 1..Len(uploads) :
        LET q == uploads[r]
        IN  (q.pc = "done" /\ q.doc_id # 0 /\ Stored(q.doc_id))
               => documents[q.doc_id].status \in {"indexed", "failed"}

\* C6: for every document id, the chunk_index values of its stored chunks
\* are exactly 0..n-1, without gap or duplicate.
C6_ContiguousIndexes ==
    \A d \in DocIds :
        LET cs == ChunksOf(d)
        IN  /\ {cs[j].chunk_index : j \in 1..Len(cs)} = 0..(Len(cs) - 1)
            /\ \A j, k \in 1..Len(cs) : cs[j].chunk_index = cs[k].chunk_index => j = k

\* C7: a stored document with status indexed has every chunk of its upload
\* in the chunk store, and exactly chunk_count chunks are stored for it.
C7_IndexedComplete ==
    \A r \in 1..Len(uploads) :
        LET q == uploads[r]
        IN  (Stored(q.doc_id) /\ documents[q.doc_id].status = "indexed")
               => /\ Len(ChunksOf(q.doc_id)) = documents[q.doc_id].chunk_count
                  /\ \A j \in 1..Len(q.chunks) :
                        \E k \in 1..Len(document_chunks) :
                            /\ document_chunks[k].document_id = q.doc_id
                            /\ document_chunks[k].chunk_index = j - 1
                            /\ document_chunks[k].text = q.chunks[j]

\* a document of two chunks is indexed while another request is running
C7_Witness ==
    \E d \in DOMAIN documents :
        /\ documents[d].status = "indexed"
        /\ documents[d].chunk_count = 2
        /\ \E r \in 1..Len(deletes) : deletes[r].pc # "done"

\* C8: a search that started after a Delete of d had returned never has a
\* result whose document_id is d.
C8_NoDeletedInSearch ==
    \A r \in 1..Len(searches) :
        \A j \in 1..Len(searches[r].final_results) :
            searches[r].final_results[j].document_id \notin searches[r].after_deletes

\* a finished search that ranked a chunk left behind by a deleted document
C8_Witness ==
    \E r \in 1..Len(searches) :
        /\ searches[r].result = "ok"
        /\ \E j \in 1..Len(searches[r].results) :
              searches[r].results[j].document_id \in searches[r].after_deletes

MayDelete(u, d) == UserRole[u] = "admin" \/ documents[d].uploaded_by = u

HasSuffixAsWritten(filename) ==
    \E e \in allowed_extensions : EndsWith(filename, e)

\* the filename ends in one of the five suffixes in any letter case
HasSuffixAnyCase(filename) ==
    \E e \in allowed_extensions : EndsWith(Lower(filename), e)

\* C10 as stated: an upload whose declared type is not supported and whose
\* filename does not end in .pdf, .docx, .xlsx, .pptx or .txt is answered
\* UnsupportedFormat and creates no document and no chunk.
C10_RejectAsWritten ==
    [][\A r \in 1..Len(uploads') :
          LET q == uploads'[r]
          IN  (q.content_type \notin allowed_types /\ ~ HasSuffixAsWritten(q.filename))
                 => /\ q.result = "unsupported"
                    /\ q.doc_id = 0
                    /\ r > Len(uploads) => UNCHANGED <<documents, document_chunks>>]_vars

\* C10 amended: the same with the suffix compared without regard to letter
\* case.
C10_RejectAnyCase ==
    [][\A r \in 1..Len(uploads') :
          LET q == uploads'[r]
          IN  (q.content_type \notin allowed_types /\ ~ HasSuffixAnyCase(q.filename))
                 => /\ q.result = "unsupported"
                    /\ q.doc_id = 0
                    /\ r > Len(uploads) => UNCHANGED <<documents, document_chunks>>]_vars

\* an upload was rejected while documents and chunks were stored
C10_Witness ==
    /\ \E r \in 1..Len(uploads) : uploads[r].result = "unsupported"
    /\ DOMAIN documents # {}
    /\ document_chunks # <<>>

\* C12: every document record is first stored with status pending: a
\* document that appears in the store appears with status pending
C12_FirstPending ==
    [][\A d \in DOMAIN documents' \ DOMAIN documents :
           documents'[d].status = "pending"]_vars

\* C11: Search and ChatContext leave the document store and the chunk store
\* unchanged: a step of a search or of a chat, successful or failing,
\* changes neither documents nor document_chunks
C11_RetrievalReadOnly ==
    [][(searches' # searches \/ chats' # chats)
          => (documents' = documents /\ document_chunks' = document_chunks)]_vars

\* a search has failed and a chat has succeeded over a store that holds chunks
C11_Witness ==
    /\ document_chunks # <<>>
    /\ \E r \in 1..Len(searches) : searches[r].result = "error"
    /\ \E r \in 1..Len(chats) : chats[r].result = "ok" /\ chats[r].sources # <<>>

\* the score of every chunk of a snapshot against a query, in corpus order
RECURSIVE Scores(_, _)
Scores(query, chunks) ==
    IF chunks = <<>> THEN <<>>
    ELSE <<calculate_text_similarity(query, Head(chunks).text)>>
         \o Scores(query, Tail(chunks))

\* chunk j ranks before chunk k: a greater score, or the same score and an
\* earlier place in the corpus
Before(scores, j, k) ==
    \/ ScoreGt(scores[j], scores[k])
    \/ (~ ScoreGt(scores[k], scores[j]) /\ j < k)

\* the chunks of among, best first
RankOrder(scores, among) ==
    [p \in 1..Cardinality(among) |->
        CHOOSE j \in among :
            Cardinality({k \in among : Before(scores, k, j)}) = p - 1]

PositiveChunks(scores) == {j \in 1..Len(scores) : ScoreGt(scores[j], <<0, 1>>)}

\* the first limit entries of the ranking of the positively scoring chunks,
\* as search results without their filename
BestRanked(query, limit, chunks) ==
    LET scores == Scores(query, chunks)
        rank == RankOrder(scores, PositiveChunks(scores))
        n == Min2(limit, Len(rank))
    IN  [p \in 1..n |->
            [document_id |-> chunks[rank[p]].document_id,
             chunk_text |-> Prefix(chunks[rank[p]].text, 500),
             score |-> scores[rank[p]]]]

\* the list a search returns, without the filenames
Returned(q) ==
    [i \in 1..Len(q.final_results) |->
        [document_id |-> q.final_results[i].document_id,
         chunk_text |-> q.final_results[i].chunk_text,
         score |-> q.final_results[i].score]]

\* returned is expected with some of its entries left out
RECURSIVE IsSubSeq(_, _)
IsSubSeq(returned, expected) ==
    IF returned = <<>> THEN TRUE
    ELSE IF expected = <<>> THEN FALSE
    ELSE IF Head(returned) = Head(expected)
         THEN IsSubSeq(Tail(returned), Tail(expected))
         ELSE IsSubSeq(returned, Tail(expected))

\* the entries of expected that returned leaves out
RECURSIVE Skipped(_, _)
Skipped(returned, expected) ==
    IF expected = <<>> THEN <<>>
    ELSE IF returned # <<>> /\ Head(returned) = Head(expected)
         THEN Skipped(Tail(returned), Tail(expected))
         ELSE <<Head(expected)>> \o Skipped(returned, Tail(expected))

\* C13 as stated: the list a search returns is the first limit entries of
\* the ranking (score descending, ties in corpus order) of the chunks that
\* score above 0
C13_FirstLimit ==
    \A r \in 1..Len(searches) :
        searches[r].result = "ok" =>
            Returned(searches[r])
              = BestRanked(searches[r].query, searches[r].limit, searches[r].chunks)

\* C13: the list a search returns is ordered by non-increasing score, holds
\* no score 0, and is the first limit entries of the ranking (score
\* descending, ties in corpus order, cut after sorting) without the entries
\* whose document is gone from the document store at the filename join
C13_FirstLimitStored ==
    \A r \in 1..Len(searches) :
        searches[r].result = "ok" =>
            LET q == searches[r]
                returned == Returned(q)
                expected == BestRanked(q.query, q.limit, q.chunks)
                skipped == Skipped(returned, expected)
            IN  /\ IsSubSeq(returned, expected)
                /\ \A i \in 1..Len(skipped) : ~ Stored(skipped[i].document_id)
                /\ \A i \in 1..Len(returned) : ScoreGt(returned[i].score, <<0, 1>>)
                /\ \A i \in 1..Len(returned) - 1 :
                       ~ ScoreGt(returned[i + 1].score, returned[i].score)
                /\ Len(returned) <= q.limit

\* one search returned three results, the first two with the same score, out
\* of more than three positively scoring chunks; another returned fewer
\* results than the ranking gave it
C13_Witness ==
    /\ \E r \in 1..Len(searches) :
          /\ searches[r].result = "ok"
          /\ Len(searches[r].final_results) = 3
          /\ searches[r].final_results[1].score = searches[r].final_results[2].score
          /\ ScoreGt(searches[r].final_results[2].score,
                     searches[r].final_results[3].score)
          /\ Cardinality(PositiveChunks(Scores(searches[r].query, searches[r].chunks))) > 3
    /\ \E r \in 1..Len(searches) :
          /\ searches[r].result = "ok"
          /\ Len(searches[r].final_results) < Len(searches[r].results)

\* the context block made of the given chunk texts
RECURSIVE ContextOf(_)
ContextOf(texts) ==
    IF texts = <<>> THEN <<>>
    ELSE ExcerptPrefix \o Head(texts)
         \o (IF Len(texts) > 1 THEN <<"\n", "\n">> \o ContextOf(Tail(texts))
             ELSE <<>>)

\* the texts of the positively scoring chunks among the five best-ranked
\* chunks of a snapshot
BestPositiveTexts(message, chunks) ==
    LET scores == Scores(message, chunks)
        rank == RankOrder(scores, {j \in 1..Len(chunks) : chunks[j].text # <<>>})
        best == SubSeq(rank, 1, Min2(5, Len(rank)))
        kept == SelectSeq(best, LAMBDA j : ScoreGt(scores[j], <<0, 1>>))
    IN  [p \in 1..Len(kept) |-> chunks[kept[p]].text]

\* C14: the chat context is the fixed marker exactly when no chunk read
\* from the store scores above 0 against the message; otherwise it is built
\* from the at most five best-ranked chunks and holds only those that score
\* above 0; a search whose query no chunk matches returns an empty list
C14_MarkerOrBestFive ==
    /\ \A r \in 1..Len(chats) :
          chats[r].result # "error" =>
              LET q == chats[r]
                  positive == PositiveChunks(Scores(q.message, q.chunks))
                  texts == BestPositiveTexts(q.message, q.chunks)
              IN  /\ (q.context = NoContext) <=> (positive = {})
                  /\ positive # {} =>
                        /\ q.context = ContextOf(texts)
                        /\ Len(texts) \in 1..5
    /\ \A r \in 1..Len(searches) :
          searches[r].result = "ok" =>
              (PositiveChunks(Scores(searches[r].query, searches[r].chunks)) = {}
                  => searches[r].final_results = <<>>)

\* over a store that holds chunks, one chat got the marker, another chat
\* got a context of five excerpts although six chunks score above 0, and a
\* search for a query that matches nothing returned the empty list
C14_Witness ==
    /\ \E r \in 1..Len(chats) :
          /\ chats[r].result = "ok"
          /\ chats[r].chunks # <<>>
          /\ chats[r].context = NoContext
    /\ \E r \in 1..Len(chats) :
          /\ chats[r].result = "ok"
          /\ chats[r].context # NoContext
          /\ Len(BestPositiveTexts(chats[r].message, chats[r].chunks)) = 5
          /\ Cardinality(PositiveChunks(Scores(chats[r].message, chats[r].chunks))) = 6
    /\ \E r \in 1..Len(searches) :
          /\ searches[r].result = "ok"
          /\ searches[r].chunks # <<>>
          /\ searches[r].limit > 0
          /\ PositiveChunks(Scores(searches[r].query, searches[r].chunks)) = {}
          /\ searches[r].final_results = <<>>

\* C20: a chat that starts after a Delete of document d has returned places
\* no text of a chunk of d into its context block
C20_NoDeletedInContext ==
    \A r \in 1..Len(chats) :
        \A j \in 1..Len(chats[r].top_chunks) :
            ScoreGt(chats[r].top_chunks[j].score, <<0, 1>>)
                => chats[r].top_chunks[j].document_id \notin chats[r].after_deletes

\* C15: with size >= 1 and 0 <= overlap < size, every round of the loop of
\* chunk_text, whether its window is kept or dropped, moves the start offset
\* up by size - overlap, and the call terminates
C15_TerminatesIncreasing ==
    /\ [][(fn.pc = "loop" /\ fn.start < Len(fn.text)) =>
              /\ fn'.start = fn.start + fn.chunk_size - fn.overlap
              /\ fn'.start > fn.start]_vars
    /\ <>(fn.pc = "done")

\* a call with overlapping windows has returned after dropping blank windows
C15_Witness ==
    /\ fn.pc = "done"
    /\ fn.chunk_size = 2 /\ fn.overlap = 1
    /\ fn.chunks # <<>>
    /\ Len(fn.chunks) + 1 < Len(fn.text)

\* ceil(a / b) for b > 0 and a of either sign
CeilDiv(a, b) == -((-a) \div b)

\* C16: chunk_text of the empty text is the empty list; for a text of
\* L >= 1 characters without whitespace, the default size 1000 and overlap
\* 200 give a number of chunks within one of ceil((L - 200) / 800); for
\* L = 1200 the chunks are the windows 0..1000 and 800..1200
C16_ChunkCount ==
    (fn.pc = "done" /\ fn.chunk_size = 1000 /\ fn.overlap = 200) =>
        LET L == Len(fn.text)
            diff == Len(fn.chunks) - CeilDiv(L - 200, 800)
        IN  /\ L = 0 => fn.chunks = <<>>
            /\ L >= 1 => diff \in {-1, 0, 1}
            /\ L = 1200 => fn.chunks = <<SubSeq(fn.text, 1, 1000),
                                         SubSeq(fn.text, 801, 1200)>>
            /\ fn.chunks = chunk_text(fn.text, fn.chunk_size, fn.overlap)

\* the call on the text of 1200 characters has returned two chunks
C16_Witness ==
    /\ fn.pc = "done" /\ fn.chunk_size = 1000 /\ fn.overlap = 200
    /\ Len(fn.text) = 1200
    /\ Len(fn.chunks) = 2

\* the places i..j of the maximal runs of characters of a class in s
RunPlaces(s, class) ==
    { <<i, j>> \in (1..Len(s)) \X (1..Len(s)) :
        /\ i <= j
        /\ \A k \in i..j : s[k] \in class
        /\ i = 1 \/ s[i - 1] \notin class
        /\ j = Len(s) \/ s[j + 1] \notin class }

\* C17 as stated: the keywords are the lower-cased maximal runs of ASCII
\* letters of length >= 3, minus the stop words
C17_LetterRuns ==
    fn.pc = "done" =>
        Range(fn.words) =
            { SubSeq(Lower(fn.text), p[1], p[2]) :
                 p \in {x \in RunPlaces(fn.text, LetterSet) : x[2] - x[1] >= 2} }
            \ stop_words

\* C17: the keywords are the lower-cased maximal runs of letters, digits and
\* underscores that consist of ASCII letters only and have length >= 3,
\* minus the stop words: a run of letters next to a digit or an underscore
\* is not emitted, and no keyword is a stop word or shorter than 3
C17_WholeWords ==
    fn.pc = "done" =>
        /\ Range(fn.words) =
              { SubSeq(Lower(fn.text), p[1], p[2]) :
                   p \in {x \in RunPlaces(fn.text, WordCharSet) :
                            /\ x[2] - x[1] >= 2
                            /\ \A k \in x[1]..x[2] : fn.text[k] \in LetterSet} }
              \ stop_words
        /\ \A i \in 1..Len(fn.words) :
              fn.words[i] \notin stop_words /\ Len(fn.words[i]) >= 3

\* the call has returned no keyword for a text where three letters that are
\* no stop word stand next to a digit or an underscore
C17_Witness ==
    /\ fn.pc = "done"
    /\ fn.words = <<>>
    /\ \E p \in RunPlaces(fn.text, LetterSet) :
          /\ p[2] - p[1] >= 2
          /\ SubSeq(Lower(fn.text), p[1], p[2]) \notin stop_words
          /\ \/ (p[1] > 1 /\ fn.text[p[1] - 1] \in {"1", "_"})
             \/ (p[2] < Len(fn.text) /\ fn.text[p[2] + 1] \in {"1", "_"})

\* C18: the similarity of two texts is the same in both orders, is
\* |A \cap B| / |A \cup B| for their keyword sets A and B and lies in
\* [0, 1], is 1 when A = B is not empty, and is 0 when A or B is empty
C18_Jaccard ==
    fn.pc = "done" =>
        LET A == Range(get_text_keywords(fn.text1))
            B == Range(get_text_keywords(fn.text2))
            reverse == calculate_text_similarity(fn.text2, fn.text1)
        IN  /\ fn.score[2] > 0
            /\ fn.score[1] * reverse[2] = reverse[1] * fn.score[2]
            /\ (A \cup B) # {} =>
                  fn.score[1] * Cardinality(A \cup B)
                     = Cardinality(A \cap B) * fn.score[2]
            /\ 0 <= fn.score[1] /\ fn.score[1] <= fn.score[2]
            /\ (A = B /\ A # {}) => fn.score[1] = fn.score[2]
            /\ (A = {} \/ B = {}) => fn.score[1] = 0

\* the call has returned 1/3 for two texts that share one of three keywords
C18_Witness ==
    /\ fn.pc = "done"
    /\ fn.score = <<1, 3>>
    /\ Cardinality(Range(get_text_keywords(fn.text1))) = 2
    /\ Cardinality(Range(get_text_keywords(fn.text2))) = 2

\* the parser of a supported declared type
VariantOfType(content_type) ==
    IF content_type = CtPdf THEN "pdf"
    ELSE IF content_type = CtDocx THEN "docx"
    ELSE IF content_type = CtXlsx THEN "xlsx"
    ELSE IF content_type = CtPptx THEN "pptx"
    ELSE "plain"

\* C19: when the declared content type is one of the five supported types,
\* the parser chosen is the one of the declared type, whatever the filename
C19_DeclaredTypeFirst ==
    (fn.pc = "done" /\ fn.content_type \in allowed_types) =>
        fn.variant = VariantOfType(fn.content_type)

\* C21: the user store holds at most one record per email address, under
\* any interleaving of register requests
C21_OneUserPerEmail ==
    \A i \in 1..Len(users) : \A j \in 1..Len(users) :
        users[i].email = users[j].email => i = j

====
